---- MODULE Spec2Model ----
(***************************************************************************)
(* Model of app.py: the Flask request handlers (analyze), the background   *)
(* run thread (run_analysis / analyze_page) and the analysis it performs   *)
(* on the ads it collected: similarity clustering, variant counts,         *)
(* scoring, ranking and the result payload.                                *)
(*                                                                         *)
(* Conventions                                                             *)
(*  - Optional[X] is a sequence: None is <<>>, a value x is <<x>>.         *)
(*  - A text is a sequence of one-character strings; "" is <<>>.           *)
(*  - A float ratio is kept exactly, as [num, den] with value num/den.     *)
(*    SequenceMatcher.ratio() is 2.0*matches/length; for lengths far below *)
(*    2^50 the double comparison ratio >= 0.6 agrees with the comparison   *)
(*    of the exact fractions, which is what AtLeastThreshold computes.     *)
(*  - A datetime is a day number; datetime.now() is the variable today.    *)
(*  - SequenceMatcher's autojunk heuristic only acts on texts of 200 or    *)
(*    more characters; the texts here are shorter, so it is not modelled.  *)
(***************************************************************************)
EXTENDS Integers, Sequences, FiniteSets, TLC

\* ------------------------------------------------------------------------
\* Bounds
\* ------------------------------------------------------------------------

\* Largest number of ads the analysis inputs of SpecAnalysis hold.
MaxAds == 3

\* Largest number of Ad objects alive at once, over all run threads, in Spec.
MaxLiveAds == 2

\* Number of runs: each accepted /analyze request starts one run thread.
MaxThreads == 2

Threads == 1..MaxThreads

None == <<>>

Some(x) == <<x>>

\* ------------------------------------------------------------------------
\* Texts
\* ------------------------------------------------------------------------

\* str.lower() on one character.
LowerChar(c) ==
    CASE c = "A" -> "a"
      [] c = "B" -> "b"
      [] c = "C" -> "c"
      [] c = "D" -> "d"
      [] c = "E" -> "e"
      [] OTHER -> c

\* str.lower()
Lower(s) == [k \in 1..Len(s) |-> LowerChar(s[k])]

\* Transcripts the transcriber can return (after strip()).
TextAbcde == <<"a", "b", "c", "d", "e">>
TextAbcxy == <<"a", "b", "c", "x", "y">>
TextPbcxy == <<"p", "b", "c", "x", "y">>
TextUpper == <<"A", "B", "C", "D", "E">>

\* Texts of the analysis inputs (SpecAnalysis). Lower-cased, the ratio of
\* TextUpper and TextAbcxy is 6/10, of TextAbcxy and TextPbcxy 8/10, of
\* TextUpper and TextPbcxy 4/10.
Texts == {TextUpper, TextAbcxy, TextPbcxy}

\* Texts the transcriber returns in Spec; <<>> is an empty transcription.
Heard == {TextAbcde, <<>>}

\* ------------------------------------------------------------------------
\* difflib.SequenceMatcher(None, a, b).ratio()
\* Positions are 1-based; a range [lo, hi) is lo..hi-1.
\* ------------------------------------------------------------------------

RECURSIVE MatchLen(_, _, _, _, _, _)
\* Length of the common run a[i..] = b[j..] inside a[..ahi), b[..bhi).
MatchLen(a, b, i, j, ahi, bhi) ==
    IF i < ahi /\ j < bhi /\ a[i] = b[j]
    THEN 1 + MatchLen(a, b, i + 1, j + 1, ahi, bhi)
    ELSE 0

\* find_longest_match: the longest matching block; of those the one starting
\* earliest in a, and of those the one starting earliest in b.
FindLongestMatch(a, b, alo, ahi, blo, bhi) ==
    LET cands == (alo..(ahi - 1)) \X (blo..(bhi - 1))
        len == [c \in cands |-> MatchLen(a, b, c[1], c[2], ahi, bhi)]
        longest == IF cands = {}
                   THEN 0
                   ELSE CHOOSE n \in {len[c] : c \in cands} :
                           \A c \in cands : len[c] <= n
        blocks == {c \in cands : len[c] = longest}
    IN  IF longest = 0
        THEN [i |-> alo, j |-> blo, size |-> 0]
        ELSE LET best == CHOOSE c \in blocks : \A d \in blocks :
                            c[1] < d[1] \/ (c[1] = d[1] /\ c[2] <= d[2])
             IN  [i |-> best[1], j |-> best[2], size |-> longest]

RECURSIVE CountMatches(_, _, _, _, _, _)
\* get_matching_blocks: the sum of the sizes of the matching blocks.
CountMatches(a, b, alo, ahi, blo, bhi) ==
    IF alo >= ahi \/ blo >= bhi
    THEN 0
    ELSE LET m == FindLongestMatch(a, b, alo, ahi, blo, bhi)
         IN  IF m.size = 0
             THEN 0
             ELSE m.size
                  + CountMatches(a, b, alo, m.i, blo, m.j)
                  + CountMatches(a, b, m.i + m.size, ahi, m.j + m.size, bhi)

\* ratio(): 2.0 * matches / (len(a) + len(b)), and 1.0 when both are empty.
Ratio(a, b) ==
    IF Len(a) + Len(b) = 0
    THEN [num |-> 1, den |-> 1]
    ELSE [num |-> 2 * CountMatches(a, b, 1, Len(a) + 1, 1, Len(b) + 1),
          den |-> Len(a) + Len(b)]

\* The default similarity_ratio of an Ad, 0.0.
ZeroRatio == [num |-> 0, den |-> 1]

\* if ratio: a float is true unless it is 0.0
RatioTruthy(r) == r.num # 0

\* int(ratio * 100)
Percent(r) == (100 * r.num) \div r.den

\* Mutant of AtLeastThreshold: ratio > 0.6.
AtLeastThresholdStrict(r) == 10 * r.num > 6 * r.den

\* ratio >= 0.6
AtLeastThreshold(r) == 10 * r.num >= 6 * r.den

\* ------------------------------------------------------------------------
\* The Ad dataclass
\* ------------------------------------------------------------------------

\* Ad(ad_id=..., url=..., start_date=...): the other fields take their
\* defaults. url is f".../?id={ad_id}", one for one with ad_id, and is not kept.
NewAd(ad_id, start_date) ==
    [ad_id |-> ad_id,
     start_date |-> start_date,
     video_path |-> FALSE,
     audio_path |-> FALSE,
     transcript |-> <<>>,
     duration_days |-> 0,
     performance_score |-> 0,
     is_original |-> TRUE,
     similar_to |-> None,
     similarity_ratio |-> ZeroRatio]

\* if a.transcript: a string is true unless it is empty
HasTranscript(ad) == ad.transcript # <<>>

\* for a in ads: the positions of the list, in its order
Indices(ads) == [k \in 1..Len(ads) |-> k]

\* ads_with_text = [a for a in ads if a.transcript]; the list holds the Ad
\* objects of ads themselves, so it is kept as their positions in ads.
AdsWithText(ads) == SelectSeq(Indices(ads), LAMBDA k : HasTranscript(ads[k]))

\* ------------------------------------------------------------------------
\* Clustering
\* ------------------------------------------------------------------------

\* Mutant of MarkVariant: is_original is left as it was.
MarkVariantStillOriginal(ads, p1, p2, ratio) ==
    [ads EXCEPT ![p2] = [@ EXCEPT !.similar_to = Some(ads[p1].ad_id),
                                  !.similarity_ratio = ratio]]

\* The body of the inner loop once ratio >= 0.6.
MarkVariant(ads, p1, p2, ratio) ==
    [ads EXCEPT ![p2] = [@ EXCEPT !.is_original = FALSE,
                                  !.similar_to = Some(ads[p1].ad_id),
                                  !.similarity_ratio = ratio]]

\* Every text a transcript can be, as it is and lower-cased.
KnownTexts == Texts \cup Heard \cup {Lower(s) : s \in Texts \cup Heard}

\* Ratio on the known texts, evaluated once and looked up afterwards.
RatioOf == [a \in KnownTexts, b \in KnownTexts |-> Ratio(a, b)]

\* SequenceMatcher(None, ad1.transcript.lower(), ad2.transcript.lower()).ratio()
TranscriptRatio(ad1, ad2) == RatioOf[Lower(ad1.transcript), Lower(ad2.transcript)]

\* Mutant of InnerSkip: an ad already in a cluster is compared again.
InnerSkipNever(ad2, assigned) == FALSE

\* if ad2.ad_id in assigned: continue
InnerSkip(ad2, assigned) == ad2.ad_id \in assigned

\* Mutant of OuterSkip: an assigned ad is taken as ad1 all the same.
OuterSkipNever(ad1, assigned) == FALSE

\* if ad1.ad_id in assigned: continue
OuterSkip(ad1, assigned) == ad1.ad_id \in assigned

RECURSIVE InnerLoop(_, _, _, _, _)
\* for ad2 in ads_with_text[i+1:], from position j of ads_with_text on.
InnerLoop(ads, assigned, with_text, i, j) ==
    IF j > Len(with_text)
    THEN [ads |-> ads, assigned |-> assigned]
    ELSE LET p1 == with_text[i]
             p2 == with_text[j]
             ratio == TranscriptRatio(ads[p1], ads[p2])
         IN  IF InnerSkip(ads[p2], assigned)
             THEN InnerLoop(ads, assigned, with_text, i, j + 1)
             ELSE IF AtLeastThreshold(ratio)
                  THEN InnerLoop(MarkVariant(ads, p1, p2, ratio),
                                 assigned \cup {ads[p2].ad_id}, with_text, i, j + 1)
                  ELSE InnerLoop(ads, assigned, with_text, i, j + 1)

RECURSIVE OuterLoop(_, _, _, _)
\* for i, ad1 in enumerate(ads_with_text), from position i on.
OuterLoop(ads, assigned, with_text, i) ==
    IF i > Len(with_text)
    THEN ads
    ELSE LET p1 == with_text[i]
         IN  IF OuterSkip(ads[p1], assigned)
             THEN OuterLoop(ads, assigned, with_text, i + 1)
             ELSE LET marked == [ads EXCEPT ![p1].is_original = TRUE]
                      done == InnerLoop(marked, assigned \cup {ads[p1].ad_id},
                                        with_text, i, i + 1)
                  IN  OuterLoop(done.ads, done.assigned, with_text, i + 1)

\* Lines 946-962: the ads after the clustering loops.
Cluster(ads) == OuterLoop(ads, {}, AdsWithText(ads), 1)

\* ------------------------------------------------------------------------
\* Variant counts
\* ------------------------------------------------------------------------

\* Mutant of Get: the default, whatever the dict holds.
GetZero(dict, key) == 0

\* variant_counts.get(key, 0) on a dict kept as a function on its keys.
Get(dict, key) == IF key \in DOMAIN dict THEN dict[key] ELSE 0

\* dict[key] = value
Put(dict, key, value) ==
    [k \in DOMAIN dict \cup {key} |-> IF k = key THEN value ELSE dict[k]]

EmptyDict == [k \in {} |-> 0]

RECURSIVE CountVariants(_, _, _)
\* for ad in ads: if ad.similar_to: variant_counts[ad.similar_to] = ... + 1
CountVariants(ads, counts, k) ==
    IF k > Len(ads)
    THEN counts
    ELSE IF ads[k].similar_to # None
         THEN LET target == ads[k].similar_to[1]
              IN  CountVariants(ads, Put(counts, target, Get(counts, target) + 1), k + 1)
         ELSE CountVariants(ads, counts, k + 1)

\* Lines 964-967.
VariantCounts(ads) == CountVariants(ads, EmptyDict, 1)

\* ------------------------------------------------------------------------
\* Scoring
\* ------------------------------------------------------------------------

\* (datetime.now() - ad.start_date).days
DurationDays(now, start_date) == now - start_date

\* Mutant of BaseScore: 50 for 60 days and more.
BaseScoreDip(duration_days) ==
    IF duration_days >= 90 THEN 100
    ELSE IF duration_days >= 60 THEN 50
    ELSE IF duration_days >= 30 THEN 60
    ELSE IF duration_days >= 14 THEN 40
    ELSE 20

\* Mutant of BaseScore: every threshold is exclusive.
BaseScoreLate(duration_days) ==
    IF duration_days > 90 THEN 100
    ELSE IF duration_days > 60 THEN 80
    ELSE IF duration_days > 30 THEN 60
    ELSE IF duration_days > 14 THEN 40
    ELSE 20

\* The if/elif chain under "if ad.start_date:".
BaseScore(duration_days) ==
    IF duration_days >= 90 THEN 100
    ELSE IF duration_days >= 60 THEN 80
    ELSE IF duration_days >= 30 THEN 60
    ELSE IF duration_days >= 14 THEN 40
    ELSE 20

\* One pass of "for ad in ads:" at lines 969-980.
ScoreAd(ad, variant_counts, now) ==
    LET dated == ad.start_date # None
        duration_days == IF dated
                         THEN DurationDays(now, ad.start_date[1])
                         ELSE ad.duration_days
        base == IF dated THEN BaseScore(duration_days) ELSE 30
        original == IF ad.is_original THEN 20 ELSE 0
        bonus == IF ad.ad_id \in DOMAIN variant_counts
                 THEN variant_counts[ad.ad_id] * 15
                 ELSE 0
    IN  [ad EXCEPT !.duration_days = duration_days,
                   !.performance_score = base + original + bonus]

\* Lines 969-980.
ScoreAll(ads, variant_counts, now) ==
    [k \in 1..Len(ads) |-> ScoreAd(ads[k], variant_counts, now)]

\* ------------------------------------------------------------------------
\* Ranking and the result payload
\* ------------------------------------------------------------------------

\* Mutant of SortKey: no tie-break on the duration.
SortKeyScoreOnly(ad) == <<0 - ad.performance_score, 0>>

\* Mutant of SortKey: ties broken by ascending duration.
SortKeyShortestFirst(ad) == <<0 - ad.performance_score, ad.duration_days>>

\* key=lambda x: (-x.performance_score, -x.duration_days)
SortKey(ad) == <<0 - ad.performance_score, 0 - ad.duration_days>>

\* Tuple comparison k1 < k2.
KeyLess(k1, k2) == k1[1] < k2[1] \/ (k1[1] = k2[1] /\ k1[2] < k2[2])

RECURSIVE InsertSorted(_, _, _)
\* x put into the sorted sequence after every element that is not greater:
\* equal keys keep their order, as in Python's stable sort.
InsertSorted(sorted, x, k) ==
    IF k > Len(sorted)
    THEN Append(sorted, x)
    ELSE IF KeyLess(SortKey(x), SortKey(sorted[k]))
         THEN SubSeq(sorted, 1, k - 1) \o <<x>> \o SubSeq(sorted, k, Len(sorted))
         ELSE InsertSorted(sorted, x, k + 1)

RECURSIVE SortedFrom(_, _, _)
SortedFrom(ads, sorted, k) ==
    IF k > Len(ads)
    THEN sorted
    ELSE SortedFrom(ads, InsertSorted(sorted, ads[k], 1), k + 1)

\* sorted(list, key=...)
Sorted(ads) == SortedFrom(ads, <<>>, 1)

\* sorted([a for a in ads if a.transcript], key=...)
RankedAds(ads) == Sorted(SelectSeq(ads, HasTranscript))

\* One entry of scripts_data. "url" is kept as the ad id it embeds; ad_text
\* and the call to action are copied unchanged and are not kept.
ScriptEntry(ad, variant_counts) ==
    [transcript |-> ad.transcript,
     url |-> ad.ad_id,
     score |-> ad.performance_score,
     duration |-> IF ad.start_date # None THEN Some(ad.duration_days) ELSE None,
     is_original |-> ad.is_original,
     variants |-> Get(variant_counts, ad.ad_id),
     similarity |-> IF RatioTruthy(ad.similarity_ratio)
                    THEN Percent(ad.similarity_ratio)
                    ELSE 0]

\* Mutant of TotalScripts: len(ads).
TotalScriptsAll(ads) == Len(ads)

\* "total_scripts": len(ads_with_text)
TotalScripts(ads) == Len(AdsWithText(ads))

\* "unique_scripts": len([a for a in ads_with_text if a.is_original])
UniqueScripts(ads) ==
    Len(SelectSeq(AdsWithText(ads), LAMBDA k : ads[k].is_original))

\* The dict analyze_page returns (lines 986-1010).
Payload(ads, variant_counts) ==
    LET ads_sorted == RankedAds(ads)
    IN  [total_scripts |-> TotalScripts(ads),
         unique_scripts |-> UniqueScripts(ads),
         scripts |-> [k \in 1..Len(ads_sorted) |->
                         ScriptEntry(ads_sorted[k], variant_counts)]]

\* The badge of one ad in the PDF.
Badge(ad, variant_counts) ==
    LET vc == Get(variant_counts, ad.ad_id)
    IN  IF ad.is_original /\ vc # 0
        THEN [kind |-> "ORIGINAL", n |-> vc]
        ELSE IF ad.is_original
             THEN [kind |-> "UNIQUE", n |-> 0]
             ELSE [kind |-> "VARIANTE", n |-> Percent(ad.similarity_ratio)]

\* Mutant of GeneratePdf: the ads are listed as they were found.
GeneratePdfUnranked(ads, variant_counts) ==
    LET with_text == AdsWithText(ads)
    IN  [k \in 1..Len(with_text) |->
            [rank |-> k,
             url |-> ads[with_text[k]].ad_id,
             score |-> ads[with_text[k]].performance_score,
             badge |-> Badge(ads[with_text[k]], variant_counts)]]

\* generate_pdf: the ad headers of the document, in order.
GeneratePdf(ads, variant_counts) ==
    LET ads_with_transcript == RankedAds(ads)
    IN  [k \in 1..Len(ads_with_transcript) |->
            [rank |-> k,
             url |-> ads_with_transcript[k].ad_id,
             score |-> ads_with_transcript[k].performance_score,
             badge |-> Badge(ads_with_transcript[k], variant_counts)]]

\* ------------------------------------------------------------------------
\* State
\* ------------------------------------------------------------------------

VARIABLES
    progress_data,    \* the global dict the /progress route returns
    response,         \* what the last /analyze request returned
    transcripts_dir,  \* TRANSCRIPTS_DIR: ad id -> text of ad_<id>.txt
    video_files,      \* DOWNLOADS_DIR: the ad ids with an ad_<id>.mp4
    audio_files,      \* AUDIO_DIR: the ad ids with an ad_<id>.mp3
    today,            \* datetime.now(), as a day number
    pc,               \* per run thread: where it is in run_analysis
    target,           \* per run thread: "id" (page_id given) or "name"
    ads,              \* per run thread: the list ads of analyze_page
    loop_i,           \* per run thread: the index of the running for loop
    variant_counts,   \* per run thread: the dict variant_counts
    pdf,              \* per run thread: the document generate_pdf built
    result,           \* per run thread: what analyze_page returned
    error,            \* per run thread: str(e) of the exception caught
    transcribed,      \* per run thread: the ad ids model.transcribe was called on
    polled            \* what the last /progress request returned, if any

vars == <<progress_data, response, transcripts_dir, video_files, audio_files,
          today, pc, target, ads, loop_i, variant_counts, pdf, result, error,
          transcribed, polled>>

files == <<transcripts_dir, video_files, audio_files>>

analysis == <<variant_counts, pdf, result>>

\* The module-level progress_data (lines 36-45).
IdleProgress ==
    [status |-> "idle", current_step |-> 0, step_name |-> "", detail |-> "",
     progress |-> 0, total |-> 0, result |-> None]

\* The dict analyze() installs (lines 687-696).
RunningProgress ==
    [status |-> "running", current_step |-> 1, step_name |-> "Recherche de la page",
     detail |-> "Connexion...", progress |-> 0, total |-> 0, result |-> None]

\* update_progress(step, name, detail, progress, total)
UpdateProgress(pd, step, name, detail, progress, total) ==
    [pd EXCEPT !.current_step = step, !.step_name = name, !.detail = detail,
               !.progress = progress, !.total = total]

\* Days on which the analysis of SpecAnalysis is made: with the start dates
\* below, the durations are the day and the day before, on both sides of every
\* threshold of the score and of zero.
Todays == {0, 14, 30, 60, 90}

\* Start dates "Started running on ..." parses to, as day numbers; None when
\* the phrase is missing or does not parse.
StartDates == {None, Some(0), Some(1)}

\* The start dates of the ads a scan lists in Spec.
ListedStartDates == {None, Some(0)}

\* The day of the runs in Spec.
RunDays == {60}

\* Numeric tokens the page holds. Token 0 stands for one of fewer than 12
\* digits, the others for ad ids of 12 digits or more.
CandidateIds == 0..MaxLiveAds

\* len(id)
IdLength(id) == IF id = 0 THEN 2 ELSE 15

\* [id for id in all_ids if len(id) >= 12]
UsableId(id) == IdLength(id) >= 12

\* The orders in which a set can be iterated.
Orderings(S) ==
    {seq \in [1..Cardinality(S) -> S] : \A a, b \in 1..Cardinality(S) :
                                            a # b => seq[a] # seq[b]}

\* str(e) of an exception an external step raises; it can be empty.
ExternalErrors == {"Timeout 60000ms exceeded", ""}

NoAdsMessage == "Aucune publicite trouvee"

PageNotFoundMessage == "Page non trouvee"

Init ==
    /\ progress_data = IdleProgress
    /\ response = "none"
    /\ transcripts_dir = EmptyDict
    /\ video_files = {}
    /\ audio_files = {}
    /\ today \in RunDays
    /\ pc = [t \in Threads |-> "idle"]
    /\ target = [t \in Threads |-> "id"]
    /\ ads = [t \in Threads |-> <<>>]
    /\ loop_i = [t \in Threads |-> 0]
    /\ variant_counts = [t \in Threads |-> EmptyDict]
    /\ pdf = [t \in Threads |-> None]
    /\ result = [t \in Threads |-> None]
    /\ error = [t \in Threads |-> ""]
    /\ transcribed = [t \in Threads |-> {}]
    /\ polled = None

\* ------------------------------------------------------------------------
\* The /analyze route
\* ------------------------------------------------------------------------

\* analyze() when neither a page id nor a page name comes out of pageUrl.
AnalyzeInvalid ==
    /\ response' = "error"
    /\ UNCHANGED <<progress_data, files, today, pc, target, ads, loop_i,
                   analysis, error, transcribed, polled>>

\* analyze() with a page id ("id") or a page name to search ("name"): it
\* installs a fresh progress_data and starts a thread on run_analysis, whatever
\* the other threads are doing. The threads are numbered in starting order.
Analyze(t, kind) ==
    /\ pc[t] = "idle"
    /\ \A u \in Threads : u < t => pc[u] # "idle"
    /\ progress_data' = RunningProgress
    /\ response' = "success"
    /\ pc' = [pc EXCEPT ![t] = "run"]
    /\ target' = [target EXCEPT ![t] = kind]
    /\ UNCHANGED <<files, today, ads, loop_i, analysis, error, transcribed, polled>>

\* ------------------------------------------------------------------------
\* run_analysis and analyze_page, one action per stretch of the thread
\* ------------------------------------------------------------------------

\* The thread ends: its locals are gone.
Finish(t) ==
    /\ pc' = [pc EXCEPT ![t] = "done"]
    /\ target' = [target EXCEPT ![t] = "id"]
    /\ ads' = [ads EXCEPT ![t] = <<>>]
    /\ loop_i' = [loop_i EXCEPT ![t] = 0]
    /\ variant_counts' = [variant_counts EXCEPT ![t] = EmptyDict]
    /\ pdf' = [pdf EXCEPT ![t] = None]
    /\ result' = [result EXCEPT ![t] = None]
    /\ error' = [error EXCEPT ![t] = ""]
    /\ transcribed' = [transcribed EXCEPT ![t] = {}]

RECURSIVE LiveAds(_)
\* The number of Ad objects the threads of T hold.
LiveAds(T) ==
    IF T = {}
    THEN 0
    ELSE LET u == CHOOSE x \in T : TRUE
         IN  Len(ads[u]) + LiveAds(T \ {u})

\* raise: control goes to the except clause of run_analysis.
Raise(t, message) ==
    /\ pc' = [pc EXCEPT ![t] = "except"]
    /\ error' = [error EXCEPT ![t] = message]

\* Lines 734-738: the page is searched by name.
FindPage(t) ==
    /\ pc[t] = "run"
    /\ target[t] = "name"
    /\ progress_data' = UpdateProgress(progress_data, 1, "Recherche de la page",
                                       "name", 0, 0)
    /\ \/ /\ pc' = [pc EXCEPT ![t] = "found"]
          /\ UNCHANGED error
       \/ Raise(t, PageNotFoundMessage)
       \/ \E e \in ExternalErrors : Raise(t, e)
    /\ UNCHANGED <<response, files, today, target, ads, loop_i, analysis,
                   transcribed, polled>>

\* Lines 781-870: the archive page is loaded and scanned for ads.
Scan(t) ==
    /\ \/ pc[t] = "run" /\ target[t] = "id"
       \/ pc[t] = "found"
    /\ \/ \E all_ids \in SUBSET CandidateIds :
          \E ad_ids \in Orderings({id \in all_ids : UsableId(id)}) :
          \E dates \in [1..Len(ad_ids) -> ListedStartDates] :
             /\ Len(ad_ids) + LiveAds(Threads \ {t}) <= MaxLiveAds
             /\ ads' = [ads EXCEPT ![t] =
                           [k \in 1..Len(ad_ids) |-> NewAd(ad_ids[k], dates[k])]]
             /\ progress_data' = UpdateProgress(progress_data, 1, "Scan",
                                                "pubs trouvees", 0, 0)
             /\ pc' = [pc EXCEPT ![t] = "scanned"]
             /\ UNCHANGED error
       \/ /\ \E e \in ExternalErrors : Raise(t, e)
          /\ progress_data' = UpdateProgress(progress_data, 1, "Scan des publicites",
                                             "Connexion...", 0, 0)
          /\ UNCHANGED ads
    /\ UNCHANGED <<response, files, today, target, loop_i, analysis, transcribed, polled>>

\* Mutant of NoAds: the empty list goes on to the download step.
NoAdsGoesOn(t) ==
    /\ pc[t] = "scanned"
    /\ ads[t] = <<>>
    /\ progress_data' = UpdateProgress(progress_data, 2, "Telechargement", "0/n",
                                       0, 0)
    /\ pc' = [pc EXCEPT ![t] = "download"]
    /\ loop_i' = [loop_i EXCEPT ![t] = 1]
    /\ UNCHANGED <<response, files, today, target, ads, analysis, error,
                   transcribed, polled>>

\* Lines 872-873: if not ads_data: raise Exception("Aucune publicite trouvee")
NoAds(t) ==
    /\ pc[t] = "scanned"
    /\ ads[t] = <<>>
    /\ Raise(t, NoAdsMessage)
    /\ UNCHANGED <<progress_data, response, files, today, target, ads, loop_i,
                   analysis, transcribed, polled>>

\* Lines 875-880: the Ad objects are built and the download step is announced.
StartDownloads(t) ==
    /\ pc[t] = "scanned"
    /\ ads[t] # <<>>
    /\ progress_data' = UpdateProgress(progress_data, 2, "Telechargement", "0/n",
                                       0, Len(ads[t]))
    /\ pc' = [pc EXCEPT ![t] = "download"]
    /\ loop_i' = [loop_i EXCEPT ![t] = 1]
    /\ UNCHANGED <<response, files, today, target, ads, analysis, error,
                   transcribed, polled>>

\* Mutant of Download: an ad whose video does not arrive ends the run.
DownloadFatal(t) ==
    /\ pc[t] = "download"
    /\ loop_i[t] <= Len(ads[t])
    /\ LET i == loop_i[t]
           id == ads[t][i].ad_id
       IN  /\ progress_data' = UpdateProgress(progress_data, 2, "Telechargement",
                                              "i/n", i, Len(ads[t]))
           /\ \/ /\ video_files' = video_files \cup {id}
                 /\ audio_files' = audio_files \cup {id}
                 /\ ads' = [ads EXCEPT ![t][i].video_path = TRUE,
                                       ![t][i].audio_path = TRUE]
                 /\ loop_i' = [loop_i EXCEPT ![t] = i + 1]
                 /\ UNCHANGED <<pc, error>>
              \/ /\ Raise(t, "yt-dlp failed")
                 /\ UNCHANGED <<video_files, audio_files, ads, loop_i>>
    /\ UNCHANGED <<response, transcripts_dir, today, target, analysis, transcribed, polled>>

\* Lines 882-908: one pass of the download loop. yt-dlp and ffmpeg each
\* leave their file or do not; neither failure leaves the loop.
Download(t) ==
    /\ pc[t] = "download"
    /\ loop_i[t] <= Len(ads[t])
    /\ LET i == loop_i[t]
           id == ads[t][i].ad_id
       IN  /\ progress_data' = UpdateProgress(progress_data, 2, "Telechargement",
                                              "i/n", i, Len(ads[t]))
           /\ \E downloaded, extracted \in BOOLEAN :
                 LET has_video == id \in video_files \/ downloaded
                     has_audio == has_video /\ (id \in audio_files \/ extracted)
                 IN  /\ video_files' = IF has_video THEN video_files \cup {id}
                                       ELSE video_files
                     /\ audio_files' = IF has_audio THEN audio_files \cup {id}
                                       ELSE audio_files
                     /\ ads' = [ads EXCEPT ![t][i].video_path = has_video,
                                           ![t][i].audio_path = has_audio]
           /\ loop_i' = [loop_i EXCEPT ![t] = i + 1]
    /\ UNCHANGED <<response, transcripts_dir, today, pc, target, analysis, error,
                   transcribed, polled>>

HasAudio(ad) == ad.audio_path

\* ads_with_audio = [a for a in ads if a.audio_path], as positions in ads.
AdsWithAudio(a) == SelectSeq(Indices(a), LAMBDA k : HasAudio(a[k]))

\* Lines 910-915: whisper is imported and, if an ad has audio, its model is
\* loaded; loading can raise.
LoadWhisper(t) ==
    /\ pc[t] = "download"
    /\ loop_i[t] > Len(ads[t])
    /\ progress_data' = UpdateProgress(progress_data, 3, "Transcription", "0/n",
                                       0, Len(AdsWithAudio(ads[t])))
    /\ \/ /\ pc' = [pc EXCEPT ![t] = "transcribe"]
          /\ loop_i' = [loop_i EXCEPT ![t] = 1]
          /\ UNCHANGED error
       \/ /\ AdsWithAudio(ads[t]) # <<>>
          /\ \E e \in ExternalErrors : Raise(t, e)
          /\ UNCHANGED loop_i
    /\ UNCHANGED <<response, files, today, target, ads, analysis, transcribed, polled>>

\* Mutant of Transcribe: the text is written to the cache file even when it
\* is empty.
TranscribeCachesAll(t) ==
    /\ pc[t] = "transcribe"
    /\ loop_i[t] <= Len(AdsWithAudio(ads[t]))
    /\ LET with_audio == AdsWithAudio(ads[t])
           i == loop_i[t]
           p == with_audio[i]
           id == ads[t][p].ad_id
       IN  /\ progress_data' = UpdateProgress(progress_data, 3, "Transcription",
                                              "i/n", i, Len(with_audio))
           /\ IF id \in DOMAIN transcripts_dir
              THEN /\ ads' = [ads EXCEPT ![t][p].transcript = transcripts_dir[id]]
                   /\ UNCHANGED <<transcripts_dir, transcribed>>
              ELSE /\ transcribed' = [transcribed EXCEPT ![t] = @ \cup {id}]
                   /\ \/ \E text \in Heard :
                            /\ ads' = [ads EXCEPT ![t][p].transcript = text]
                            /\ transcripts_dir' = Put(transcripts_dir, id, text)
                      \/ UNCHANGED <<ads, transcripts_dir>>
           /\ loop_i' = [loop_i EXCEPT ![t] = i + 1]
    /\ UNCHANGED <<response, video_files, audio_files, today, pc, target,
                   analysis, error, polled>>

\* Lines 916-928: one pass of the transcription loop.
Transcribe(t) ==
    /\ pc[t] = "transcribe"
    /\ loop_i[t] <= Len(AdsWithAudio(ads[t]))
    /\ LET with_audio == AdsWithAudio(ads[t])
           i == loop_i[t]
           p == with_audio[i]
           id == ads[t][p].ad_id
       IN  /\ progress_data' = UpdateProgress(progress_data, 3, "Transcription",
                                              "i/n", i, Len(with_audio))
           /\ IF id \in DOMAIN transcripts_dir
              THEN /\ ads' = [ads EXCEPT ![t][p].transcript = transcripts_dir[id]]
                   /\ UNCHANGED <<transcripts_dir, transcribed>>
              ELSE /\ transcribed' = [transcribed EXCEPT ![t] = @ \cup {id}]
                   /\ \/ \E text \in Heard :
                            /\ ads' = [ads EXCEPT ![t][p].transcript = text]
                            /\ transcripts_dir' = IF text # <<>>
                                                  THEN Put(transcripts_dir, id, text)
                                                  ELSE transcripts_dir
                      \/ UNCHANGED <<ads, transcripts_dir>>
           /\ loop_i' = [loop_i EXCEPT ![t] = i + 1]
    /\ UNCHANGED <<response, video_files, audio_files, today, pc, target,
                   analysis, error, polled>>

\* Lines 930-942: the video and audio files of the run's ads are deleted.
Cleanup(t) ==
    /\ pc[t] = "transcribe"
    /\ loop_i[t] > Len(AdsWithAudio(ads[t]))
    /\ progress_data' = UpdateProgress(progress_data, 3, "Transcription",
                                       "Nettoyage des fichiers...", 0, 0)
    /\ video_files' = video_files \ {ads[t][k].ad_id :
                                       k \in {j \in 1..Len(ads[t]) : ads[t][j].video_path}}
    /\ audio_files' = audio_files \ {ads[t][k].ad_id :
                                       k \in {j \in 1..Len(ads[t]) : ads[t][j].audio_path}}
    /\ pc' = [pc EXCEPT ![t] = "analyse"]
    /\ UNCHANGED <<response, transcripts_dir, today, target, ads, loop_i,
                   analysis, error, transcribed, polled>>

\* Lines 944-980: clustering, variant counts and scores.
Analyse(t) ==
    /\ pc[t] = "analyse"
    /\ progress_data' = UpdateProgress(progress_data, 4, "Analyse", "Similarites...",
                                       0, 0)
    /\ LET clustered == Cluster(ads[t])
           counts == VariantCounts(clustered)
       IN  /\ variant_counts' = [variant_counts EXCEPT ![t] = counts]
           /\ ads' = [ads EXCEPT ![t] = ScoreAll(clustered, counts, today)]
    /\ pc' = [pc EXCEPT ![t] = "report"]
    /\ UNCHANGED <<response, files, today, target, loop_i, pdf, result, error,
                   transcribed, polled>>

\* Lines 982-1010: the PDF is generated and the payload returned; building
\* the document can raise.
Report(t) ==
    /\ pc[t] = "report"
    /\ progress_data' = UpdateProgress(progress_data, 5, "Rapport",
                                       "Generation PDF...", 0, 0)
    /\ \/ /\ pdf' = [pdf EXCEPT ![t] = Some(GeneratePdf(ads[t], variant_counts[t]))]
          /\ result' = [result EXCEPT ![t] = Some(Payload(ads[t], variant_counts[t]))]
          /\ pc' = [pc EXCEPT ![t] = "returned"]
          /\ UNCHANGED error
       \/ /\ \E e \in ExternalErrors : Raise(t, e)
          /\ UNCHANGED <<pdf, result>>
    /\ UNCHANGED <<response, files, today, target, ads, loop_i, variant_counts,
                   transcribed, polled>>

\* Line 743: progress_data["status"] = "complete"
SetComplete(t) ==
    /\ pc[t] = "returned"
    /\ progress_data' = [progress_data EXCEPT !.status = "complete"]
    /\ pc' = [pc EXCEPT ![t] = "publish"]
    /\ UNCHANGED <<response, files, today, target, ads, loop_i, analysis, error,
                   transcribed, polled>>

\* Line 744: progress_data["result"] = result
SetResult(t) ==
    /\ pc[t] = "publish"
    /\ progress_data' = [progress_data EXCEPT !.result = result[t]]
    /\ Finish(t)
    /\ UNCHANGED <<response, files, today, polled>>

\* Line 747: progress_data["status"] = "error"
SetError(t) ==
    /\ pc[t] = "except"
    /\ progress_data' = [progress_data EXCEPT !.status = "error"]
    /\ pc' = [pc EXCEPT ![t] = "except_detail"]
    /\ UNCHANGED <<response, files, today, target, ads, loop_i, analysis, error,
                   transcribed, polled>>

\* Line 748: progress_data["detail"] = str(e)
SetErrorDetail(t) ==
    /\ pc[t] = "except_detail"
    /\ progress_data' = [progress_data EXCEPT !.detail = error[t]]
    /\ Finish(t)
    /\ UNCHANGED <<response, files, today, polled>>

Step(t) ==
    \/ FindPage(t)
    \/ Scan(t)
    \/ NoAds(t)
    \/ StartDownloads(t)
    \/ Download(t)
    \/ LoadWhisper(t)
    \/ Transcribe(t)
    \/ Cleanup(t)
    \/ Analyse(t)
    \/ Report(t)
    \/ SetComplete(t)
    \/ SetResult(t)
    \/ SetError(t)
    \/ SetErrorDetail(t)

Next ==
    \/ AnalyzeInvalid
    \/ \E t \in Threads, kind \in {"id", "name"} : Analyze(t, kind)
    \/ \E t \in Threads : Step(t)

Spec == Init /\ [][Next]_vars

\* ------------------------------------------------------------------------
\* The analysis on its own: thread 1 stands at line 944, after the cleanup,
\* holding any list of ads the earlier steps can have left it.
\* ------------------------------------------------------------------------

\* The ad the download and transcription loops leave: a transcript comes
\* with the audio it was made from (or was cached for).
CollectedAd(ad_id, start_date, transcript) ==
    [NewAd(ad_id, start_date) EXCEPT !.video_path = transcript # <<>>,
                                     !.audio_path = transcript # <<>>,
                                     !.transcript = transcript]

\* Every transcript a run holds is in the cache: it was read from it or
\* written to it.
CacheOf(a) ==
    [id \in {a[k].ad_id : k \in {j \in 1..Len(a) : HasTranscript(a[j])}} |->
        (CHOOSE ad \in {a[k] : k \in 1..Len(a)} : ad.ad_id = id).transcript]

\* The id of the k-th of n listed ads: the page lists a set of ids in no
\* particular order, here 2, 3, ..., n, 1.
ListedId(k, n) == (k % n) + 1

InitAnalysis ==
    /\ today \in Todays
    /\ \E n \in 0..MaxAds :
       \E dates \in [1..n -> StartDates] :
       \E texts \in [1..n -> Texts \cup {<<>>}] :
          LET collected == [k \in 1..n |->
                              CollectedAd(ListedId(k, n), dates[k], texts[k])]
          IN  /\ ads = [t \in Threads |-> IF t = 1 THEN collected ELSE <<>>]
              /\ transcripts_dir = CacheOf(collected)
              /\ progress_data =
                    UpdateProgress(RunningProgress, 3, "Transcription",
                                   "Nettoyage des fichiers...", 0, 0)
              /\ loop_i = [t \in Threads |->
                              IF t = 1 THEN Len(AdsWithAudio(collected)) + 1 ELSE 0]
    /\ response = "success"
    /\ video_files = {}
    /\ audio_files = {}
    /\ pc = [t \in Threads |-> IF t = 1 THEN "analyse" ELSE "idle"]
    /\ target = [t \in Threads |-> "id"]
    /\ variant_counts = [t \in Threads |-> EmptyDict]
    /\ pdf = [t \in Threads |-> None]
    /\ result = [t \in Threads |-> None]
    /\ error = [t \in Threads |-> ""]
    /\ transcribed = [t \in Threads |-> {}]
    /\ polled = None

NextAnalysis ==
    \E t \in Threads :
       \/ Analyse(t)
       \/ Report(t)
       \/ SetComplete(t)
       \/ SetResult(t)
       \/ SetError(t)
       \/ SetErrorDetail(t)

SpecAnalysis == InitAnalysis /\ [][NextAnalysis]_vars

\* ------------------------------------------------------------------------
\* The /progress route, polled while the analysis of SpecAnalysis goes on
\* ------------------------------------------------------------------------

\* get_progress(): jsonify(progress_data), the dict as it is at that moment.
\* The request thread runs between any two statements of run_analysis.
Poll ==
    /\ polled' = Some(progress_data)
    /\ UNCHANGED <<progress_data, response, files, today, pc, target, ads,
                   loop_i, analysis, error, transcribed>>

NextPoll == NextAnalysis \/ Poll

SpecPoll == InitAnalysis /\ [][NextPoll]_vars


\* ------------------------------------------------------------------------
\* Properties
\* ------------------------------------------------------------------------

\* The threads whose ads are clustered and scored: from line 982 to the end
\* of analyze_page and of run_analysis's try block.
AfterAnalysis == {t \in Threads : pc[t] \in {"report", "returned", "publish"}}

Positions(t) == 1..Len(ads[t])

\* The ads of thread t that name ad_id in similar_to.
VariantsOf(t, ad_id) == {k \in Positions(t) : ads[t][k].similar_to = Some(ad_id)}

\* C1: similar_to is absent or is the id of an ad earlier in discovery order
\* that is marked original and is itself no variant; so no ad is a variant of
\* a variant, of itself or of a later ad.
C1_SimilarToEarlierOriginal ==
    \A t \in Threads : \A k \in Positions(t) :
        ads[t][k].similar_to # None =>
            \E j \in 1..(k - 1) :
                /\ ads[t][j].ad_id = ads[t][k].similar_to[1]
                /\ ads[t][j].is_original
                /\ ads[t][j].similar_to = None

\* C1 witness: after clustering, a third ad is a variant of the first although
\* the second, a variant too, stands between them.
C1_Witness ==
    \E t \in AfterAnalysis :
        /\ Len(ads[t]) = 3
        /\ ads[t][2].similar_to = Some(ads[t][1].ad_id)
        /\ ads[t][3].similar_to = Some(ads[t][1].ad_id)

\* C2: an ad, with or without a transcript, is original iff similar_to is
\* absent; an original ad has similarity ratio 0 and an ad with similar_to a
\* ratio within [0, 1].
C2_OriginalIffNoSimilarTo ==
    \A t \in Threads : \A k \in Positions(t) :
        LET ad == ads[t][k]
        IN  /\ ad.is_original <=> ad.similar_to = None
            /\ ad.is_original => ad.similarity_ratio.num = 0
            /\ ad.similar_to # None =>
                  /\ ad.similarity_ratio.den > 0
                  /\ 0 <= ad.similarity_ratio.num
                  /\ ad.similarity_ratio.num <= ad.similarity_ratio.den

\* C2 witness: after clustering, a variant with ratio 1, an original and an ad
\* without a transcript.
C2_Witness ==
    \E t \in AfterAnalysis : \E k, j \in Positions(t) :
        /\ ads[t][k].similar_to # None
        /\ ads[t][k].similarity_ratio.num = ads[t][k].similarity_ratio.den
        /\ ~HasTranscript(ads[t][j])
        /\ ads[t][j].is_original

\* The threads with exactly two ads with a transcript, clustered.
TwoTranscripts == {t \in AfterAnalysis : Len(AdsWithText(ads[t])) = 2}

\* C3: with exactly two transcripts, a computed ratio of exactly 0.60 links
\* the later ad to the earlier one, and a ratio below 0.60 links nothing and
\* leaves both original.
C3_ThresholdInclusive ==
    \A t \in TwoTranscripts :
        LET first == ads[t][AdsWithText(ads[t])[1]]
            second == ads[t][AdsWithText(ads[t])[2]]
            ratio == TranscriptRatio(first, second)
        IN  /\ 100 * ratio.num = 60 * ratio.den =>
                  /\ second.similar_to = Some(first.ad_id)
                  /\ ~second.is_original
                  /\ first.is_original
            /\ 100 * ratio.num < 60 * ratio.den =>
                  /\ first.similar_to = None /\ first.is_original
                  /\ second.similar_to = None /\ second.is_original

\* C3 witness: two transcripts of ratio exactly 6/10, the later one linked.
C3_Witness ==
    \E t \in TwoTranscripts :
        LET first == ads[t][AdsWithText(ads[t])[1]]
            second == ads[t][AdsWithText(ads[t])[2]]
            ratio == TranscriptRatio(first, second)
        IN  /\ 100 * ratio.num = 60 * ratio.den
            /\ second.similar_to = Some(first.ad_id)

\* The base score as the specification states it.
TierScore(ad) ==
    IF ad.start_date = None THEN 30
    ELSE IF ad.duration_days < 14 THEN 20
    ELSE IF ad.duration_days <= 29 THEN 40
    ELSE IF ad.duration_days <= 59 THEN 60
    ELSE IF ad.duration_days <= 89 THEN 80
    ELSE 100

\* C5: the score is the base of the duration tier (30 without a start date),
\* plus 20 for an original, plus 15 for each variant the ad has; so between two
\* originals of the same start date the scores differ by 15 per variant.
C5_ScoreFormula ==
    \A t \in AfterAnalysis :
        /\ \A k \in Positions(t) :
              LET ad == ads[t][k]
              IN  /\ ad.start_date # None =>
                        ad.duration_days = today - ad.start_date[1]
                  /\ ad.performance_score =
                        TierScore(ad) + (IF ad.is_original THEN 20 ELSE 0)
                        + 15 * Cardinality(VariantsOf(t, ad.ad_id))
        /\ \A k, j \in Positions(t) :
              (/\ ads[t][k].is_original /\ ads[t][j].is_original
               /\ ads[t][k].start_date = ads[t][j].start_date) =>
                  ads[t][k].performance_score - ads[t][j].performance_score =
                      15 * (Cardinality(VariantsOf(t, ads[t][k].ad_id))
                            - Cardinality(VariantsOf(t, ads[t][j].ad_id)))

\* C5 witness: scored, an original that started 14 days ago and has two
\* variants, one of them without a start date.
C5_Witness ==
    \E t \in AfterAnalysis : \E k, j \in Positions(t) :
        /\ ads[t][k].is_original
        /\ ads[t][k].start_date # None
        /\ ads[t][k].duration_days = 14
        /\ Cardinality(VariantsOf(t, ads[t][k].ad_id)) = 2
        /\ ads[t][k].performance_score = 90
        /\ j \in VariantsOf(t, ads[t][k].ad_id)
        /\ ads[t][j].start_date = None
        /\ ads[t][j].performance_score = 30

\* C6: of two ads with known start dates, the same originality and the same
\* number of variants, the one that has run longer scores at least as much.
C6_ScoreMonotoneInDuration ==
    \A t \in AfterAnalysis : \A k, j \in Positions(t) :
        (/\ ads[t][k].start_date # None
         /\ ads[t][j].start_date # None
         /\ ads[t][k].is_original = ads[t][j].is_original
         /\ Cardinality(VariantsOf(t, ads[t][k].ad_id))
               = Cardinality(VariantsOf(t, ads[t][j].ad_id))
         /\ ads[t][k].duration_days >= ads[t][j].duration_days) =>
            ads[t][k].performance_score >= ads[t][j].performance_score

\* C6 witness: two such ads of 60 and 59 days, scoring 100 and 80.
C6_Witness ==
    \E t \in AfterAnalysis : \E k, j \in Positions(t) :
        /\ ads[t][k].start_date # None
        /\ ads[t][j].start_date # None
        /\ ads[t][k].is_original /\ ads[t][j].is_original
        /\ VariantsOf(t, ads[t][k].ad_id) = {}
        /\ VariantsOf(t, ads[t][j].ad_id) = {}
        /\ ads[t][k].duration_days = 60 /\ ads[t][j].duration_days = 59
        /\ ads[t][k].performance_score = 100 /\ ads[t][j].performance_score = 80

\* The payloads there are: what analyze_page returned to a thread and what
\* progress_data holds.
Payloads ==
    {result[t][1] : t \in {u \in Threads : result[u] # None}}
    \cup (IF progress_data.result # None THEN {progress_data.result[1]} ELSE {})

\* The duration-in-days an entry was sorted by: 0 without a start date.
EntryDuration(entry) == IF entry.duration = None THEN 0 ELSE entry.duration[1]

\* C7: the ranked list is in descending order of score and, at equal score,
\* of duration-in-days.
C7_RankedByScoreThenDuration ==
    \A payload \in Payloads : \A k \in 1..(Len(payload.scripts) - 1) :
        LET x == payload.scripts[k]
            y == payload.scripts[k + 1]
        IN  \/ x.score > y.score
            \/ x.score = y.score /\ EntryDuration(x) >= EntryDuration(y)

\* C7 witness: a payload whose first two entries have the same score, the
\* first the longer duration, and stand in the other order in the list of ads.
C7_Witness ==
    \E t \in Threads :
        /\ result[t] # None
        /\ Len(result[t][1].scripts) >= 2
        /\ LET x == result[t][1].scripts[1]
               y == result[t][1].scripts[2]
           IN  /\ x.score = y.score
               /\ EntryDuration(x) > EntryDuration(y)
               /\ \E k, j \in Positions(t) :
                     /\ k < j
                     /\ ads[t][k].ad_id = y.url
                     /\ ads[t][j].ad_id = x.url

\* C8: in the ranked list no ad without a start date stands before an ad with
\* a start date and the same score.
C8_UnknownStartLastAmongEqual ==
    \A payload \in Payloads : \A k, j \in 1..Len(payload.scripts) :
        (k < j /\ payload.scripts[k].score = payload.scripts[j].score) =>
            ~(/\ payload.scripts[k].duration = None
              /\ payload.scripts[j].duration # None)

\* C8 witness: a payload where an ad without a start date follows an ad with
\* one and the same score, though it precedes it in the list of ads.
C8_Witness ==
    \E t \in Threads :
        /\ result[t] # None
        /\ \E k, j \in 1..Len(result[t][1].scripts) :
              LET x == result[t][1].scripts[k]
                  y == result[t][1].scripts[j]
              IN  /\ k < j
                  /\ x.score = y.score
                  /\ x.duration # None
                  /\ y.duration = None
                  /\ \E a, b \in Positions(t) :
                        /\ a < b
                        /\ ads[t][a].ad_id = y.url
                        /\ ads[t][b].ad_id = x.url

\* C9: the payload lists exactly the ads with a non-empty transcript, each
\* once; total_scripts is their number and the length of the list, and
\* unique_scripts the number of them that are original.
C9_PayloadCountsTranscribedAds ==
    \A t \in Threads :
        result[t] # None =>
            LET payload == result[t][1]
                with_text == {k \in Positions(t) : ads[t][k].transcript # <<>>}
                listed == {payload.scripts[k].url : k \in 1..Len(payload.scripts)}
            IN  /\ payload.total_scripts = Cardinality(with_text)
                /\ Len(payload.scripts) = Cardinality(with_text)
                /\ listed = {ads[t][k].ad_id : k \in with_text}
                /\ Cardinality(listed) = Len(payload.scripts)
                /\ payload.unique_scripts =
                      Cardinality({k \in with_text : ads[t][k].is_original})

\* C9 witness: a payload of two scripts, one of them original, from three ads.
C9_Witness ==
    \E t \in Threads :
        /\ result[t] # None
        /\ Len(ads[t]) = 3
        /\ result[t][1].total_scripts = 2
        /\ result[t][1].unique_scripts = 1

\* What a thread whose scan found no usable ad id does at each of its steps.
ZeroAdsStep(t) ==
    /\ (pc[t] = "scanned" /\ ads[t] = <<>> /\ pc'[t] # pc[t]) =>
          /\ pc'[t] = "except"
          /\ error'[t] = NoAdsMessage
          /\ error'[t] # ""
    /\ (pc[t] = "except" /\ error[t] = NoAdsMessage /\ pc'[t] # pc[t]) =>
          /\ pc'[t] = "except_detail"
          /\ error'[t] = error[t]
          /\ progress_data'.status = "error"
    /\ (pc[t] = "except_detail" /\ error[t] = NoAdsMessage /\ pc'[t] # pc[t]) =>
          /\ pc'[t] = "done"
          /\ progress_data'.detail = NoAdsMessage

\* C10: a run whose discovery yields no usable ad id goes from the scan to
\* the except clause with a non-empty message, sets the status to error and
\* the detail to that message and ends; it takes no step of the download,
\* transcription, analysis or report.
C10_ZeroAdsRunFails == [][\A t \in Threads : ZeroAdsStep(t)]_vars

\* C10 witness: the run has failed with the message of the empty scan, in
\* step 1.
C10_Witness ==
    /\ progress_data.status = "error"
    /\ progress_data.detail = NoAdsMessage
    /\ progress_data.current_step = 1
    /\ \A t \in Threads : pc[t] \in {"idle", "done"}

\* ------------------------------------------------------------------------
\* Error handling
\* ------------------------------------------------------------------------

\* C11: a run that found ads of which none ends up with a transcript never
\* sets the status to complete and never publishes a result: no thread stands
\* between lines 743 and 744 with a list of ads that has no transcript.
C11_NoTranscriptRunFails ==
    \A t \in Threads : pc[t] = "publish" => AdsWithText(ads[t]) # <<>>

\* The thread is in a pass of the download loop or of the transcription loop.
InPerAdLoop(t) ==
    \/ pc[t] = "download" /\ loop_i[t] <= Len(ads[t])
    \/ pc[t] = "transcribe" /\ loop_i[t] <= Len(AdsWithAudio(ads[t]))

\* The position in ads of the ad the running pass is about.
CurrentAd(t) ==
    IF pc[t] = "download" THEN loop_i[t] ELSE AdsWithAudio(ads[t])[loop_i[t]]

\* The step is one of thread t.
StepOf(t) == pc'[t] # pc[t] \/ loop_i'[t] # loop_i[t]

\* What a pass of either loop does, whether its external tool worked or not.
ContainedPass(t) ==
    LET p == CurrentAd(t)
    IN  /\ pc'[t] = pc[t]
        /\ error'[t] = error[t]
        /\ progress_data'.status = progress_data.status
        /\ loop_i'[t] = loop_i[t] + 1
        /\ Len(ads'[t]) = Len(ads[t])
        /\ \A k \in 1..Len(ads[t]) : k # p => ads'[t][k] = ads[t][k]
        /\ ads'[t][p] = [ads[t][p] EXCEPT !.video_path = ads'[t][p].video_path,
                                          !.audio_path = ads'[t][p].audio_path,
                                          !.transcript = ads'[t][p].transcript]
        /\ ads'[t][p].audio_path => ads'[t][p].video_path
        /\ pc[t] = "download" => ads'[t][p].transcript = <<>>

\* A loop is left only after its last pass.
LoopsRunToEnd(t) ==
    /\ pc[t] = "download" /\ pc'[t] # "download" => loop_i[t] = Len(ads[t]) + 1
    /\ pc[t] = "transcribe" /\ pc'[t] # "transcribe" =>
           loop_i[t] = Len(AdsWithAudio(ads[t])) + 1

\* C12: a pass of the download loop or of the transcription loop changes
\* only its own ad, whatever yt-dlp, ffmpeg or whisper did, moves on to the
\* next ad without a second attempt, and does not fail the run; both loops
\* run over all their ads.
C12_PerAdFailureContained ==
    [][\A t \in Threads :
          /\ InPerAdLoop(t) /\ StepOf(t) => ContainedPass(t)
          /\ LoopsRunToEnd(t)]_vars

\* A run past both loops and not failed, whose first ad has no video and whose
\* second ad has audio but got no transcript out of a call of the transcriber.
C12_Witness ==
    \E t \in Threads :
        /\ pc[t] = "analyse"
        /\ error[t] = ""
        /\ Len(ads[t]) = 2
        /\ ~ads[t][1].video_path
        /\ ads[t][2].audio_path
        /\ ads[t][2].transcript = <<>>
        /\ ads[t][2].ad_id \in transcribed[t]

\* The step is an /analyze request answered with the error message.
RejectedRequest == response' = "error" /\ response # "error"

\* C13: an /analyze request that is not recognized, or that resolves to no
\* page id, is answered with an error and starts nothing: the shared state
\* and the threads stay as they are, and no thread is ever found looking for
\* a page id that does not resolve.
C13_UnresolvableRequestNeverStarts ==
    [][/\ RejectedRequest => UNCHANGED <<progress_data, pc, target, ads, error>>
       /\ \A t \in Threads :
              ~(pc'[t] = "except" /\ error'[t] = PageNotFoundMessage)]_vars

\* ------------------------------------------------------------------------
\* The transcript cache
\* ------------------------------------------------------------------------

\* The step is a pass of thread t's transcription loop.
TranscriptionPass(t) ==
    pc[t] = "transcribe" /\ loop_i[t] <= Len(AdsWithAudio(ads[t])) /\ StepOf(t)

\* The step writes the cache file of ad id: a pass of some thread's
\* transcription loop about that ad called the transcriber and got the text
\* now in the file, which is not empty.
WrittenFromTranscription(id) ==
    /\ transcripts_dir'[id] # <<>>
    /\ \E t \in Threads :
          /\ TranscriptionPass(t)
          /\ ads[t][CurrentAd(t)].ad_id = id
          /\ id \in transcribed'[t] \ transcribed[t]
          /\ ads'[t][CurrentAd(t)].transcript = transcripts_dir'[id]

\* A pass about an ad with no cache file calls the transcriber, and writes
\* nothing when it is left without a text.
UncachedPass(t) ==
    LET p == CurrentAd(t)
        id == ads[t][p].ad_id
    IN  id \notin DOMAIN transcripts_dir =>
           /\ id \in transcribed'[t]
           /\ ads'[t][p].transcript = <<>> => transcripts_dir' = transcripts_dir

\* C14: over all runs, a cache file appears only when a transcription of
\* its ad returned a text that is not empty, and is kept as written; a failed
\* or empty transcription writes nothing, so that a run that comes to the ad
\* again finds no file and calls the transcriber again.
C14_CacheOnlyNonEmptyTranscripts ==
    [][/\ \A id \in DOMAIN transcripts_dir :
              id \in DOMAIN transcripts_dir' /\ transcripts_dir'[id] = transcripts_dir[id]
       /\ \A id \in DOMAIN transcripts_dir' \ DOMAIN transcripts_dir :
              WrittenFromTranscription(id)
       /\ \A t \in Threads : TranscriptionPass(t) => UncachedPass(t)]_vars

\* A run that has completed holds an ad with audio the transcriber gave no
\* text for, and a run started after it has called the transcriber on the
\* same ad and got the text now in the cache.
C14_Witness ==
    \E t, u \in Threads :
        /\ t < u
        /\ pc[t] = "publish"
        /\ \E k \in 1..Len(ads[t]) :
              LET id == ads[t][k].ad_id
              IN  /\ id \in transcribed[t]
                  /\ ads[t][k].transcript = <<>>
                  /\ id \in transcribed[u]
                  /\ id \in DOMAIN transcripts_dir

\* A pass about an ad that has a cache file takes the text of the file and
\* does not call the transcriber.
CachedPass(t) ==
    LET p == CurrentAd(t)
        id == ads[t][p].ad_id
    IN  id \in DOMAIN transcripts_dir =>
           /\ ads'[t][p].transcript = transcripts_dir[id]
           /\ transcribed'[t] = transcribed[t]

\* The step takes thread t out of the transcription stage.
LeavesTranscription(t) == pc[t] = "transcribe" /\ pc'[t] = "analyse"

\* C15: every ad of a run that has a cache file leaves the transcription
\* stage with the text of the file as its transcript, and the transcriber is
\* not called for it (an ad the run itself called the transcriber on had no
\* file when the run came to it).
C15_CacheHitShortCircuits ==
    [][\A t \in Threads :
          /\ TranscriptionPass(t) => CachedPass(t)
          /\ LeavesTranscription(t) =>
                \A k \in 1..Len(ads[t]) :
                   LET id == ads[t][k].ad_id
                   IN  id \in DOMAIN transcripts_dir /\ id \notin transcribed[t] =>
                          ads[t][k].transcript = transcripts_dir[id]]_vars

\* ------------------------------------------------------------------------
\* Runs and the shared progress_data
\* ------------------------------------------------------------------------

\* The threads that are running run_analysis.
ActiveRuns == {t \in Threads : pc[t] \notin {"idle", "done"}}

\* The step is an /analyze request that starts thread t.
Accepted(t) == pc[t] = "idle" /\ pc'[t] = "run"

\* C16: an /analyze request is not accepted while a run is running, so that
\* at most one thread runs run_analysis at any time.
C16_OneActiveRun ==
    [][/\ \A t \in Threads :
              Accepted(t) => progress_data.status # "running" /\ ActiveRuns = {}
       /\ Cardinality(ActiveRuns') <= 1]_vars

\* The status says the run is over.
Terminal(status) == status \in {"complete", "error"}

\* The step ends thread t.
Ends(t) == pc[t] # "done" /\ pc'[t] = "done"

\* C17 (what a finite run can refute of it): a run ends with the status
\* complete or error; a run that raised ends with the status error and the
\* message of the exception as detail; and a status of complete or error
\* stays as it is until an /analyze request is accepted.
C17_OneTerminalState ==
    [][/\ \A t \in Threads :
              /\ Ends(t) => Terminal(progress_data'.status)
              /\ Ends(t) /\ pc[t] = "except_detail" =>
                     /\ progress_data'.status = "error"
                     /\ progress_data'.detail = error[t]
       /\ Terminal(progress_data.status)
             /\ progress_data'.status # progress_data.status =>
                \E t \in Threads : Accepted(t)]_vars

\* ------------------------------------------------------------------------
\* The document, the clustering rule and the variant counts
\* ------------------------------------------------------------------------

\* The badge the fields of a payload entry stand for.
BadgeOfEntry(entry) ==
    IF entry.is_original /\ entry.variants # 0
    THEN [kind |-> "ORIGINAL", n |-> entry.variants]
    ELSE IF entry.is_original
         THEN [kind |-> "UNIQUE", n |-> 0]
         ELSE [kind |-> "VARIANTE", n |-> entry.similarity]

\* C18: the document lists the ads of the payload's ranked list, in the same
\* order, each with its rank, the score of its payload entry and the badge
\* its payload entry's originality flag, variant count and similarity
\* percent stand for.
C18_DocumentMirrorsPayload ==
    \A t \in Threads :
        pdf[t] # None /\ result[t] # None =>
            LET document == pdf[t][1]
                scripts == result[t][1].scripts
            IN  /\ Len(document) = Len(scripts)
                /\ \A k \in 1..Len(document) :
                      /\ document[k].rank = k
                      /\ document[k].url = scripts[k].url
                      /\ document[k].score = scripts[k].score
                      /\ document[k].badge = BadgeOfEntry(scripts[k])

\* A document of three ads, one of each badge, that does not start with the
\* ad found first.
C18_Witness ==
    \E t \in Threads :
        /\ pdf[t] # None
        /\ result[t] # None
        /\ Len(pdf[t][1]) = 3
        /\ {pdf[t][1][k].badge.kind : k \in 1..3} = {"ORIGINAL", "UNIQUE", "VARIANTE"}
        /\ pdf[t][1][1].url # ads[t][1].ad_id

\* ratio >= 0.6 for the lower-cased transcripts of two ads, the earlier first
Similar(earlier, later) ==
    LET ratio == TranscriptRatio(earlier, later)
    IN  10 * ratio.num >= 6 * ratio.den

\* The originals with a transcript before position k whose transcript is
\* similar to that of the ad at k.
EarlierSimilarOriginals(t, k) ==
    {j \in 1..(k - 1) : /\ HasTranscript(ads[t][j])
                        /\ ads[t][j].is_original
                        /\ Similar(ads[t][j], ads[t][k])}

\* The least position of a non-empty set of positions.
First(S) == CHOOSE j \in S : \A i \in S : j <= i

\* C19: after clustering, an ad with a transcript that is similar to an
\* original before it is a variant of the first such original, with the
\* ratio computed against it; an ad with a transcript similar to no original
\* before it is original. So no original is similar to an original before
\* it, though it may be similar to a variant before it.
C19_FirstMatchClustering ==
    \A t \in AfterAnalysis : \A k \in Positions(t) :
        HasTranscript(ads[t][k]) =>
            LET matches == EarlierSimilarOriginals(t, k)
                ad == ads[t][k]
            IN  /\ matches # {} =>
                      /\ ~ad.is_original
                      /\ ad.similar_to = Some(ads[t][First(matches)].ad_id)
                      /\ ad.similarity_ratio =
                            TranscriptRatio(ads[t][First(matches)], ad)
                /\ matches = {} => ad.is_original /\ ad.similar_to = None
                /\ ad.is_original => matches = {}

\* The third ad is similar to both originals before it, more so to the
\* second, and is a variant of the first.
C19_Witness ==
    \E t \in AfterAnalysis :
        /\ Len(ads[t]) = 3
        /\ EarlierSimilarOriginals(t, 3) = {1, 2}
        /\ ads[t][3].similar_to = Some(ads[t][1].ad_id)
        /\ LET first == TranscriptRatio(ads[t][1], ads[t][3])
               second == TranscriptRatio(ads[t][2], ads[t][3])
           IN  second.num * first.den > first.num * second.den

RECURSIVE SumOfCounts(_, _)
\* The sum of the counts of the dict at the keys of the set.
SumOfCounts(counts, keys) ==
    IF keys = {}
    THEN 0
    ELSE LET key == CHOOSE x \in keys : TRUE
         IN  counts[key] + SumOfCounts(counts, keys \ {key})

\* C20: a key of variant_counts is the id of an original ad with a
\* transcript; its count is the number of ads whose similar_to is that id
\* and is not 0; an ad no similar_to names is no key, and its payload entry
\* reports 0 variants; the counts add up to total_scripts - unique_scripts.
C20_VariantCountsMatchSimilarTo ==
    \A t \in AfterAnalysis :
        LET counts == variant_counts[t]
        IN  /\ \A key \in DOMAIN counts :
                  /\ \E k \in Positions(t) :
                        /\ ads[t][k].ad_id = key
                        /\ ads[t][k].is_original
                        /\ HasTranscript(ads[t][k])
                  /\ counts[key] = Cardinality(VariantsOf(t, key))
                  /\ counts[key] > 0
            /\ \A k \in Positions(t) :
                  VariantsOf(t, ads[t][k].ad_id) = {} =>
                     ads[t][k].ad_id \notin DOMAIN counts
            /\ result[t] # None =>
                  LET payload == result[t][1]
                  IN  /\ \A k \in 1..Len(payload.scripts) :
                            payload.scripts[k].variants =
                               Cardinality(VariantsOf(t, payload.scripts[k].url))
                      /\ SumOfCounts(counts, DOMAIN counts) =
                            payload.total_scripts - payload.unique_scripts

\* An original with two variants, and a payload whose entries for the
\* variants report none.
C20_Witness ==
    \E t \in AfterAnalysis :
        /\ result[t] # None
        /\ \E key \in DOMAIN variant_counts[t] : variant_counts[t][key] = 2
        /\ \E k \in 1..Len(result[t][1].scripts) :
              /\ ~result[t][1].scripts[k].is_original
              /\ result[t][1].scripts[k].variants = 0

\* ------------------------------------------------------------------------
\* Polls
\* ------------------------------------------------------------------------

\* C21: what a /progress request returns has a result whenever its status
\* is complete, and no result while its status is running.
C21_CompleteComesWithResult ==
    polled # None =>
        /\ polled[1].status = "complete" => polled[1].result # None
        /\ polled[1].status = "running" => polled[1].result = None

====
